---- MODULE Spec2Model ----
(***************************************************************************)
(* A model of src/lib.rs, the BrowserTools context-server extension: the   *)
(* configuration held by BrowserToolsExtension, the three host callbacks   *)
(* (context_server_command, complete_slash_command_argument,               *)
(* run_slash_command), the command table, the HTTP transport and the       *)
(* response normaliser with its endpoint formatters.                       *)
(*                                                                         *)
(* Text is a sequence of pieces.  A piece is a record [k, s, n, d]: a run  *)
(* of literal characters (k = "t"), a decimal integer (k = "i"), or a JSON *)
(* token (punctuation "p", string "s", number "n" = n/d, literal "l",      *)
(* layout "w" = a line break and n levels of indentation, and "x" for      *)
(* characters that are no JSON token).  A response body is such a          *)
(* sequence, so that parsing it is a real conversion that can fail.        *)
(***************************************************************************)
EXTENDS Integers, Sequences, FiniteSets, TLC

VARIABLES host, port, npx_command, now, pc, call, result, resolved

vars == <<host, port, npx_command, now, pc, call, result, resolved>>

(***************************************************************************)
(* Program constants                                                       *)
(***************************************************************************)
DEFAULT_PORT == 3025

DEFAULT_HOST == "127.0.0.1"

DEFAULT_BROWSERTOOLS_NPX_COMMAND == "@agentdeskai/browser-tools-server@1.2.0"

default_port == DEFAULT_PORT

default_host == DEFAULT_HOST

default_npx_command == DEFAULT_BROWSERTOOLS_NPX_COMMAND

U16_MAX == 65535

I32_MAX == 2147483647

(***************************************************************************)
(* Bounds of the model                                                     *)
(***************************************************************************)
\* The wall clock runs from 0 to MaxClock milliseconds.
MaxClock == 1

\* Truncated bodies are the proper prefixes of at most MaxCut tokens.
MaxCut == 3

(***************************************************************************)
(* Pieces of text                                                          *)
(***************************************************************************)
Piece(k, s, n, d) == [k |-> k, s |-> s, n |-> n, d |-> d]

T(s) == Piece("t", s, 0, 1)

I(n) == Piece("i", "", n, 1)

P(c) == Piece("p", c, 0, 1)

S(s) == Piece("s", s, 0, 1)

N(n, d) == Piece("n", "", n, d)

L(c) == Piece("l", c, 0, 1)

W(depth) == Piece("w", "", depth, 1)

X(s) == Piece("x", s, 0, 1)

\* A String holds no empty run: "" contributes nothing to a concatenation.
Txt(pieces) == SelectSeq(pieces, LAMBDA p : p # T(""))

RECURSIVE Join(_, _)
\* [String].join(sep)
Join(texts, sep) ==
    IF Len(texts) = 0 THEN <<>>
    ELSE IF Len(texts) = 1 THEN texts[1]
    ELSE texts[1] \o sep \o Join(Tail(texts), sep)

\* Whether the pieces `part` occur consecutively in `text`.
Contains(text, part) ==
    \E i \in 0..(Len(text) - Len(part)) :
        \A j \in 1..Len(part) : text[i + j] = part[j]

\* Whether `text` starts with the pieces `part`.
StartsWith(text, part) ==
    /\ Len(part) <= Len(text)
    /\ \A j \in 1..Len(part) : text[j] = part[j]

\* Whether `b` occurs in `text` somewhere after an occurrence of `a`.
ContainsAfter(text, a, b) ==
    \E i \in 0..(Len(text) - Len(a)) :
        /\ \A j \in 1..Len(a) : text[i + j] = a[j]
        /\ \E m \in (i + Len(a))..(Len(text) - Len(b)) :
               \A j \in 1..Len(b) : text[m + j] = b[j]

(***************************************************************************)
(* serde_json::Value                                                       *)
(***************************************************************************)
JNull == [t |-> "null"]

JBool(b) == [t |-> "bool", b |-> b]

JNum(n, d) == [t |-> "num", n |-> n, d |-> d]

JStr(s) == [t |-> "str", s |-> s]

JArr(a) == [t |-> "arr", a |-> a]

\* An object is a map from its keys to values (serde_json's Map).
JObj(o) == [t |-> "obj", o |-> o]

EmptyMap == <<>>

\* Value::get(key): Some only for an object that has the key.
Has(v, key) == v.t = "obj" /\ key \in DOMAIN v.o

\* data.get(key).and_then(|v| v.as_str()).is_some()
HasStr(v, key) == Has(v, key) /\ v.o[key].t = "str"

\* data.get(key).and_then(|v| v.as_str()).unwrap_or(dflt)
GetStrOr(v, key, dflt) == IF HasStr(v, key) THEN v.o[key].s ELSE dflt

\* data.get(key).and_then(|v| v.as_array()).is_some()
HasArr(v, key) == Has(v, key) /\ v.o[key].t = "arr"

\* data.get(key).and_then(|v| v.as_f64()).is_some()
HasNum(v, key) == Has(v, key) /\ v.o[key].t = "num"

\* The keys of the model's JSON texts, in the order of serde_json's map
\* (a BTreeMap: sorted by key).
KeyOrder ==
    <<"category", "className", "data", "description", "element", "id",
      "innerText", "issues", "level", "message", "outerHTML", "score",
      "source", "status", "tagName", "timestamp", "title">>

\* The keys of an object, in map order.
Keys(o) == SelectSeq(KeyOrder, LAMBDA key : key \in DOMAIN o)

(***************************************************************************)
(* serde_json::to_string and to_string_pretty                              *)
(***************************************************************************)
Space == Piece("w", " ", 0, 1)

RECURSIVE Render(_, _, _)
\* The text of a Value: compact, or pretty with one layout piece per line.
Render(v, depth, pretty) ==
    LET open(d) == IF pretty THEN <<W(d)>> ELSE <<>>
        colon == IF pretty THEN <<P(":"), Space>> ELSE <<P(":")>>
    IN  CASE v.t = "null" -> <<L("null")>>
          [] v.t = "bool" -> <<L(IF v.b THEN "true" ELSE "false")>>
          [] v.t = "num" -> <<N(v.n, v.d)>>
          [] v.t = "str" -> <<S(v.s)>>
          [] v.t = "arr" ->
                IF Len(v.a) = 0 THEN <<P("["), P("]")>>
                ELSE <<P("[")>>
                     \o Join([i \in 1..Len(v.a) |->
                                 open(depth + 1)
                                 \o Render(v.a[i], depth + 1, pretty)],
                             <<P(",")>>)
                     \o open(depth) \o <<P("]")>>
          [] v.t = "obj" ->
                LET ks == Keys(v.o)
                IN  IF Len(ks) = 0 THEN <<P("{"), P("}")>>
                    ELSE <<P("{")>>
                         \o Join([i \in 1..Len(ks) |->
                                     open(depth + 1) \o <<S(ks[i])>> \o colon
                                     \o Render(v.o[ks[i]], depth + 1, pretty)],
                                 <<P(",")>>)
                         \o open(depth) \o <<P("}")>>

to_string(v) == Render(v, 0, FALSE)

to_string_pretty(v) == Render(v, 0, TRUE)

(***************************************************************************)
(* serde_json::from_str::<Value>                                           *)
(***************************************************************************)
ParseOk(v, i) == [ok |-> TRUE, v |-> v, i |-> i, err |-> ""]

ParseErr(e) == [ok |-> FALSE, v |-> JNull, i |-> 0, err |-> e]

RECURSIVE ParseValue(_, _), ParseElems(_, _, _), ParseMembers(_, _, _)
\* One JSON value from token i of tokens.
ParseValue(tokens, i) ==
    IF i > Len(tokens) THEN ParseErr("EOF while parsing a value")
    ELSE LET tok == tokens[i]
         IN  CASE tok.k = "s" -> ParseOk(JStr(tok.s), i + 1)
               [] tok.k = "n" -> ParseOk(JNum(tok.n, tok.d), i + 1)
               [] tok.k = "l" ->
                     ParseOk(IF tok.s = "null" THEN JNull
                             ELSE JBool(tok.s = "true"), i + 1)
               [] tok = P("[") ->
                     IF i + 1 <= Len(tokens) /\ tokens[i + 1] = P("]")
                     THEN ParseOk(JArr(<<>>), i + 2)
                     ELSE ParseElems(tokens, i + 1, <<>>)
               [] tok = P("{") ->
                     IF i + 1 <= Len(tokens) /\ tokens[i + 1] = P("}")
                     THEN ParseOk(JObj(EmptyMap), i + 2)
                     ELSE ParseMembers(tokens, i + 1, EmptyMap)
               [] OTHER -> ParseErr("expected value")

\* The elements of an array from token i on, after those of acc.
ParseElems(tokens, i, acc) ==
    IF i > Len(tokens) THEN ParseErr("EOF while parsing a list")
    ELSE LET e == ParseValue(tokens, i)
         IN  IF ~e.ok THEN e
             ELSE IF e.i > Len(tokens)
                  THEN ParseErr("EOF while parsing a list")
             ELSE IF tokens[e.i] = P(",")
                  THEN ParseElems(tokens, e.i + 1, Append(acc, e.v))
             ELSE IF tokens[e.i] = P("]")
                  THEN ParseOk(JArr(Append(acc, e.v)), e.i + 1)
             ELSE ParseErr("expected , or ]")

\* The members of an object from token i on, after those of acc; a key
\* that comes twice keeps its last value.
ParseMembers(tokens, i, acc) ==
    IF i > Len(tokens) THEN ParseErr("EOF while parsing an object")
    ELSE IF tokens[i].k # "s" THEN ParseErr("key must be a string")
    ELSE IF i + 1 > Len(tokens) THEN ParseErr("EOF while parsing an object")
    ELSE IF tokens[i + 1] # P(":") THEN ParseErr("expected :")
    ELSE LET e == ParseValue(tokens, i + 2)
             map == (tokens[i].s :> e.v) @@ acc
         IN  IF ~e.ok THEN e
             ELSE IF e.i > Len(tokens)
                  THEN ParseErr("EOF while parsing an object")
             ELSE IF tokens[e.i] = P(",")
                  THEN ParseMembers(tokens, e.i + 1, map)
             ELSE IF tokens[e.i] = P("}")
                  THEN ParseOk(JObj(map), e.i + 1)
             ELSE ParseErr("expected , or }")

\* from_str::<serde_json::Value>(text): white space is skipped, and the
\* whole text must be one value.
from_str_value(text) ==
    LET tokens == SelectSeq(text, LAMBDA p : p.k # "w")
        r == ParseValue(tokens, 1)
    IN  IF ~r.ok THEN r
        ELSE IF r.i <= Len(tokens) THEN ParseErr("trailing characters")
        ELSE r

(***************************************************************************)
(* ApiResponse and its derived Deserialize                                 *)
(***************************************************************************)
ApiOk(status, data, message) ==
    [ok |-> TRUE, status |-> status, data |-> data, message |-> message,
     err |-> ""]

ApiErr(e) ==
    [ok |-> FALSE, status |-> "", data |-> JNull, message |-> "", err |-> e]

\* struct ApiResponse { status: String, #[serde(default)] data: Value,
\* #[serde(default)] message: String }, read from a JSON object (unknown
\* keys are ignored) or, as serde's derive also accepts, from a JSON array
\* of the fields in order.
ApiResponse(v) ==
    CASE v.t = "obj" ->
            IF ~Has(v, "status") THEN ApiErr("missing field status")
            ELSE IF ~HasStr(v, "status")
                 THEN ApiErr("invalid type, expected a string")
            ELSE IF Has(v, "message") /\ ~HasStr(v, "message")
                 THEN ApiErr("invalid type, expected a string")
            ELSE ApiOk(v.o["status"].s,
                       IF Has(v, "data") THEN v.o["data"] ELSE JNull,
                       GetStrOr(v, "message", ""))
      [] v.t = "arr" ->
            IF Len(v.a) = 0 THEN ApiErr("invalid length 0")
            ELSE IF v.a[1].t # "str"
                 THEN ApiErr("invalid type, expected a string")
            ELSE IF Len(v.a) >= 3 /\ v.a[3].t # "str"
                 THEN ApiErr("invalid type, expected a string")
            ELSE IF Len(v.a) > 3 THEN ApiErr("trailing characters")
            ELSE ApiOk(v.a[1].s,
                       IF Len(v.a) >= 2 THEN v.a[2] ELSE JNull,
                       IF Len(v.a) >= 3 THEN v.a[3].s ELSE "")
      [] OTHER -> ApiErr("invalid type, expected struct ApiResponse")

\* serde_json::from_str::<ApiResponse>(text)
from_str_ApiResponse(text) ==
    LET r == from_str_value(text)
    IN  IF r.ok THEN ApiResponse(r.v) ELSE ApiErr(r.err)

(***************************************************************************)
(* The endpoint formatters                                                 *)
(***************************************************************************)
\* str::to_uppercase on the level names of the model.
to_uppercase(s) ==
    CASE s = "error" -> "ERROR"
      [] s = "warn" -> "WARN"
      [] s = "info" -> "INFO"
      [] s = "log" -> "LOG"
      [] OTHER -> s

\* A variant of format_console_logs that puts the empty notice under the
\* header.
format_console_logs_under_header(data) ==
    IF data.t = "arr"
    THEN LET formatted_logs ==
                 Join([i \in 1..Len(data.a) |->
                          LET log == data.a[i]
                              level == GetStrOr(log, "level", "info")
                              message == GetStrOr(log, "message", "")
                          IN  Txt(<<T("["), T(to_uppercase(level)), T("] "),
                                    T(message)>>)],
                      <<T("\n")>>)
         IN  IF formatted_logs = <<>>
             THEN <<T("Console Logs:"), T("\n\n"),
                    T("No console logs found.")>>
             ELSE <<T("Console Logs:"), T("\n\n")>> \o formatted_logs
    ELSE <<T("Console logs: ")>> \o to_string_pretty(data)

format_console_logs(data) ==
    IF data.t = "arr"
    THEN LET formatted_logs ==
                 Join([i \in 1..Len(data.a) |->
                          LET log == data.a[i]
                              level == GetStrOr(log, "level", "info")
                              message == GetStrOr(log, "message", "")
                          IN  Txt(<<T("["), T(to_uppercase(level)), T("] "),
                                    T(message)>>)],
                      <<T("\n")>>)
         IN  IF formatted_logs = <<>>
             THEN <<T("No console logs found.")>>
             ELSE <<T("Console Logs:"), T("\n\n")>> \o formatted_logs
    ELSE <<T("Console logs: ")>> \o to_string_pretty(data)

format_selected_element(data) ==
    IF Has(data, "element")
    THEN LET element == data.o["element"]
             tag_name == GetStrOr(element, "tagName", "unknown")
             class_name == GetStrOr(element, "className", "")
             id == GetStrOr(element, "id", "")
             text == GetStrOr(element, "innerText", "")
         IN  Txt(<<T("Selected DOM Element:\n- Tag: "), T(tag_name)>>
                 \o (IF id # "" THEN <<T("\n- ID: "), T(id)>> ELSE <<>>)
                 \o (IF class_name # ""
                     THEN <<T("\n- Classes: "), T(class_name)>> ELSE <<>>)
                 \o (IF text # "" THEN <<T("\n- Text: "), T(text)>> ELSE <<>>)
                 \o (IF HasStr(element, "outerHTML")
                     THEN <<T("\n\nHTML:\n"), T(element.o["outerHTML"].s)>>
                     ELSE <<>>))
    ELSE <<T("No DOM element selected. Click on an element in the browser to select it.")>>

\* A variant of score_percentage that truncates where the code rounds.
score_percentage_trunc(num, den) == (100 * num) \div den

\* (score * 100.0).round() as i32, for the score num/den: f64::round rounds
\* half away from zero, and the cast saturates.
score_percentage(num, den) ==
    LET n == 100 * num
        r == IF n >= 0 THEN (2 * n + den) \div (2 * den)
             ELSE 0 - ((2 * (0 - n) + den) \div (2 * den))
    IN  IF r > I32_MAX THEN I32_MAX
        ELSE IF r < (0 - I32_MAX) - 1 THEN (0 - I32_MAX) - 1
        ELSE r

RECURSIVE issues_text(_, _)
\* The loop over issues.iter().enumerate(), from index i on.
issues_text(issues, i) ==
    IF i > Len(issues) THEN <<>>
    ELSE LET issue == issues[i]
             title == GetStrOr(issue, "title", "Unknown issue")
             description == GetStrOr(issue, "description", "")
         IN  Txt(<<T("\n"), I(i), T(". "), T(title), T("\n")>>)
             \o (IF description # ""
                 THEN <<T("   "), T(description), T("\n")>> ELSE <<>>)
             \o issues_text(issues, i + 1)

format_audit_response(endpoint, data) ==
    LET audit_type ==
            CASE endpoint = "accessibility-audit" -> "Accessibility"
              [] endpoint = "performance-audit" -> "Performance"
              [] endpoint = "seo-audit" -> "SEO"
              [] endpoint = "best-practices-audit" -> "Best Practices"
              [] endpoint = "nextjs-audit" -> "NextJS"
              [] OTHER -> "Unknown"
        score ==
            IF HasNum(data, "score")
            THEN <<T("Overall Score: "),
                   I(score_percentage(data.o["score"].n, data.o["score"].d)),
                   T("%"), T("\n")>>
            ELSE <<>>
        issues ==
            IF HasArr(data, "issues")
            THEN IF Len(data.o["issues"].a) = 0
                 THEN <<T("\n"), T("No issues found!")>>
                 ELSE <<T("\nIssues Found:\n")>>
                      \o issues_text(data.o["issues"].a, 1)
            ELSE <<>>
    IN  IF score # <<>> \/ issues # <<>>
        THEN <<T(audit_type), T(" Audit Results:\n\n")>> \o score \o issues
        ELSE <<T(audit_type), T(" Audit Results:\n\n")>>
             \o to_string_pretty(data)

format_browser_tools_response(endpoint, data) ==
    CASE endpoint = "capture-screenshot" ->
            IF HasStr(data, "message")
            THEN <<T("Successfully saved screenshot")>>
            ELSE <<T("Screenshot captured: ")>> \o to_string_pretty(data)
      [] endpoint \in {"console-logs", "console-errors"} ->
            format_console_logs(data)
      [] endpoint \in {"network-success", "network-errors"} ->
            <<T("Network logs:\n\n")>> \o to_string_pretty(data)
      [] endpoint = "wipelogs" ->
            IF HasStr(data, "message")
            THEN Txt(<<T(data.o["message"].s)>>)
            ELSE <<T("Browser logs cleared successfully.")>>
      [] endpoint = "selected-element" -> format_selected_element(data)
      [] endpoint \in {"accessibility-audit", "performance-audit",
                       "seo-audit", "best-practices-audit", "nextjs-audit"} ->
            format_audit_response(endpoint, data)
      [] endpoint = "audit-all" ->
            <<T("Audit Mode Results:\n\n")>> \o to_string_pretty(data)
      [] endpoint = "debug-mode" ->
            <<T("Debugger Mode Results:\n\n")>> \o to_string_pretty(data)
      [] OTHER -> to_string_pretty(data)

(***************************************************************************)
(* The response normaliser                                                 *)
(***************************************************************************)
Ok(v) == [ok |-> TRUE, v |-> v]

Err(e) == [ok |-> FALSE, v |-> e]

Slash == T("/")

\* format!("http://{}:{}/{}", self.host, self.port, api_endpoint)
format_api_url(h, p, api_endpoint) ==
    Txt(<<T("http:"), Slash, Slash, T(h), T(":"), I(p), Slash,
          T(api_endpoint)>>)

RECURSIVE split_last(_)
\* api_url.split('/').last().unwrap_or(""): the characters after the last
\* '/', as one string.
split_last(url) ==
    IF Len(url) = 0 THEN ""
    ELSE IF \E i \in 1..Len(url) : url[i] = Slash
         THEN split_last(Tail(url))
    ELSE url[1].s

\* A variant of process_api_response that fails on a body that is no JSON.
process_api_response_strict(response, api_url) ==
    LET endpoint == split_last(api_url)
        api_response == from_str_ApiResponse(response)
        json == from_str_value(response)
    IN  IF api_response.ok
        THEN IF api_response.status = "success"
             THEN Ok(format_browser_tools_response(endpoint,
                                                   api_response.data))
             ELSE Ok(Txt(<<T("Error from BrowserTools: "),
                           T(api_response.message)>>))
        ELSE IF json.ok
             THEN Ok(format_browser_tools_response(endpoint, json.v))
        ELSE Err(<<T("Raw response from BrowserTools (parse error: "),
                  T(api_response.err), T("): ")>> \o response)

\* A variant of process_api_response that raises a remote failure as an
\* error.
process_api_response_raise(response, api_url) ==
    LET endpoint == split_last(api_url)
        api_response == from_str_ApiResponse(response)
        json == from_str_value(response)
    IN  IF api_response.ok
        THEN IF api_response.status = "success"
             THEN Ok(format_browser_tools_response(endpoint,
                                                   api_response.data))
             ELSE Err(Txt(<<T("Error from BrowserTools: "),
                            T(api_response.message)>>))
        ELSE IF json.ok
             THEN Ok(format_browser_tools_response(endpoint, json.v))
        ELSE Ok(<<T("Raw response from BrowserTools (parse error: "),
                  T(api_response.err), T("): ")>> \o response)

process_api_response(response, api_url) ==
    LET endpoint == split_last(api_url)
        api_response == from_str_ApiResponse(response)
        json == from_str_value(response)
    IN  IF api_response.ok
        THEN IF api_response.status = "success"
             THEN Ok(format_browser_tools_response(endpoint,
                                                   api_response.data))
             ELSE Ok(Txt(<<T("Error from BrowserTools: "),
                           T(api_response.message)>>))
        ELSE IF json.ok
             THEN Ok(format_browser_tools_response(endpoint, json.v))
        ELSE Ok(<<T("Raw response from BrowserTools (parse error: "),
                  T(api_response.err), T("): ")>> \o response)

(***************************************************************************)
(* The command table                                                       *)
(***************************************************************************)
create_completion(label, command) ==
    [label |-> label, new_text |-> command, run_command |-> TRUE]

\* SystemTime::now() in milliseconds since the epoch, as i64.
get_current_timestamp == now

Params(endpoint, method, params) ==
    Ok([endpoint |-> endpoint, method |-> method, params |-> params])

\* json!({"category": .., "source": "zed_extension", "timestamp": ..})
TaggedPayload(category, timestamp) ==
    JObj([category |-> JStr(category), source |-> JStr("zed_extension"),
          timestamp |-> JNum(timestamp, 1)])

\* A variant of SourcePayload with the time read once, at start-up.
SourcePayload_stale(timestamp) ==
    JObj([source |-> JStr("zed_extension"), timestamp |-> JNum(0, 1)])

\* json!({"source": "zed_extension", "timestamp": ..})
SourcePayload(timestamp) ==
    JObj([source |-> JStr("zed_extension"), timestamp |-> JNum(timestamp, 1)])

\* A variant of get_api_params whose debug arm takes any argument, as the
\* debug arm of get_error_message does.
get_api_params_any_debug(command_name, arg) ==
    LET timestamp == get_current_timestamp
        pair == <<command_name, arg>>
    IN  CASE pair = <<"browser-capture", "screenshot">> ->
                Params("capture-screenshot", "POST", JObj(EmptyMap))
          [] pair = <<"browser-capture", "logs">> ->
                Params("console-logs", "GET", JObj(EmptyMap))
          [] pair = <<"browser-capture", "errors">> ->
                Params("console-errors", "GET", JObj(EmptyMap))
          [] pair = <<"browser-capture", "network">> ->
                Params("network-success", "GET", JObj(EmptyMap))
          [] pair = <<"browser-capture", "network-errors">> ->
                Params("network-errors", "GET", JObj(EmptyMap))
          [] pair = <<"browser-capture", "clear">> ->
                Params("wipelogs", "POST", JObj(EmptyMap))
          [] pair = <<"browser-capture", "element">> ->
                Params("selected-element", "GET", JObj(EmptyMap))
          [] pair = <<"browser-audit", "accessibility">> ->
                Params("accessibility-audit", "POST",
                       TaggedPayload("accessibility", timestamp))
          [] pair = <<"browser-audit", "performance">> ->
                Params("performance-audit", "POST",
                       TaggedPayload("performance", timestamp))
          [] pair = <<"browser-audit", "seo">> ->
                Params("seo-audit", "POST", TaggedPayload("seo", timestamp))
          [] pair = <<"browser-audit", "best-practices">> ->
                Params("best-practices-audit", "POST",
                       TaggedPayload("best-practices", timestamp))
          [] pair = <<"browser-audit", "nextjs">> ->
                Params("nextjs-audit", "POST", SourcePayload(timestamp))
          [] pair = <<"browser-audit", "all">> ->
                Params("audit-all", "POST", SourcePayload(timestamp))
          [] command_name = "browser-debug" ->
                Params("debug-mode", "POST", SourcePayload(timestamp))
          [] OTHER ->
                Err(Txt(<<T("Unknown command or argument: "), T(command_name),
                          T(" "), T(arg)>>))

get_api_params(command_name, arg) ==
    LET timestamp == get_current_timestamp
        pair == <<command_name, arg>>
    IN  CASE pair = <<"browser-capture", "screenshot">> ->
                Params("capture-screenshot", "POST", JObj(EmptyMap))
          [] pair = <<"browser-capture", "logs">> ->
                Params("console-logs", "GET", JObj(EmptyMap))
          [] pair = <<"browser-capture", "errors">> ->
                Params("console-errors", "GET", JObj(EmptyMap))
          [] pair = <<"browser-capture", "network">> ->
                Params("network-success", "GET", JObj(EmptyMap))
          [] pair = <<"browser-capture", "network-errors">> ->
                Params("network-errors", "GET", JObj(EmptyMap))
          [] pair = <<"browser-capture", "clear">> ->
                Params("wipelogs", "POST", JObj(EmptyMap))
          [] pair = <<"browser-capture", "element">> ->
                Params("selected-element", "GET", JObj(EmptyMap))
          [] pair = <<"browser-audit", "accessibility">> ->
                Params("accessibility-audit", "POST",
                       TaggedPayload("accessibility", timestamp))
          [] pair = <<"browser-audit", "performance">> ->
                Params("performance-audit", "POST",
                       TaggedPayload("performance", timestamp))
          [] pair = <<"browser-audit", "seo">> ->
                Params("seo-audit", "POST", TaggedPayload("seo", timestamp))
          [] pair = <<"browser-audit", "best-practices">> ->
                Params("best-practices-audit", "POST",
                       TaggedPayload("best-practices", timestamp))
          [] pair = <<"browser-audit", "nextjs">> ->
                Params("nextjs-audit", "POST", SourcePayload(timestamp))
          [] pair = <<"browser-audit", "all">> ->
                Params("audit-all", "POST", SourcePayload(timestamp))
          [] pair = <<"browser-debug", "start">> ->
                Params("debug-mode", "POST", SourcePayload(timestamp))
          [] OTHER ->
                Err(Txt(<<T("Unknown command or argument: "), T(command_name),
                          T(" "), T(arg)>>))

get_section_label(command_name, arg) ==
    LET pair == <<command_name, arg>>
    IN  CASE pair = <<"browser-capture", "screenshot">> -> "Browser Screenshot"
          [] pair = <<"browser-capture", "logs">> -> "Browser Console Logs"
          [] pair = <<"browser-capture", "errors">> -> "Browser Console Errors"
          [] pair = <<"browser-capture", "network">> -> "Browser Network Logs"
          [] pair = <<"browser-capture", "network-errors">> ->
                "Browser Network Errors"
          [] pair = <<"browser-capture", "clear">> -> "Clear Logs"
          [] pair = <<"browser-capture", "element">> -> "DOM Element"
          [] pair = <<"browser-audit", "accessibility">> ->
                "Accessibility Audit"
          [] pair = <<"browser-audit", "performance">> -> "Performance Audit"
          [] pair = <<"browser-audit", "seo">> -> "SEO Audit"
          [] pair = <<"browser-audit", "best-practices">> ->
                "Best Practices Audit"
          [] pair = <<"browser-audit", "nextjs">> -> "NextJS Audit"
          [] pair = <<"browser-audit", "all">> -> "All Audits"
          [] pair = <<"browser-debug", "start">> -> "Debugger Mode"
          [] OTHER -> "Browser Tools"

\* A variant of get_error_message without the arm of the debug group.
get_error_message_no_debug(command_name, arg) ==
    LET pair == <<command_name, arg>>
    IN  CASE pair = <<"browser-capture", "screenshot">> ->
                "Failed to capture screenshot. Make sure BrowserTools extension is running in Chrome."
          [] pair = <<"browser-capture", "logs">> ->
                "Failed to retrieve console logs. Make sure BrowserTools extension is running in Chrome."
          [] pair = <<"browser-capture", "errors">> ->
                "Failed to retrieve console errors. Make sure BrowserTools extension is running in Chrome."
          [] pair = <<"browser-capture", "network">> ->
                "Failed to retrieve network logs. Make sure BrowserTools extension is running in Chrome."
          [] pair = <<"browser-capture", "network-errors">> ->
                "Failed to retrieve network errors. Make sure BrowserTools extension is running in Chrome."
          [] pair = <<"browser-capture", "clear">> ->
                "Failed to clear logs. Make sure BrowserTools extension is running in Chrome."
          [] pair = <<"browser-capture", "element">> ->
                "Failed to get DOM element. Make sure BrowserTools extension is running in Chrome."
          [] command_name = "browser-audit" ->
                "Failed to run audit. Make sure BrowserTools extension is running in Chrome."
          [] OTHER -> "Unknown command"

get_error_message(command_name, arg) ==
    LET pair == <<command_name, arg>>
    IN  CASE pair = <<"browser-capture", "screenshot">> ->
                "Failed to capture screenshot. Make sure BrowserTools extension is running in Chrome."
          [] pair = <<"browser-capture", "logs">> ->
                "Failed to retrieve console logs. Make sure BrowserTools extension is running in Chrome."
          [] pair = <<"browser-capture", "errors">> ->
                "Failed to retrieve console errors. Make sure BrowserTools extension is running in Chrome."
          [] pair = <<"browser-capture", "network">> ->
                "Failed to retrieve network logs. Make sure BrowserTools extension is running in Chrome."
          [] pair = <<"browser-capture", "network-errors">> ->
                "Failed to retrieve network errors. Make sure BrowserTools extension is running in Chrome."
          [] pair = <<"browser-capture", "clear">> ->
                "Failed to clear logs. Make sure BrowserTools extension is running in Chrome."
          [] pair = <<"browser-capture", "element">> ->
                "Failed to get DOM element. Make sure BrowserTools extension is running in Chrome."
          [] command_name = "browser-audit" ->
                "Failed to run audit. Make sure BrowserTools extension is running in Chrome."
          [] command_name = "browser-debug" ->
                "Failed to start debugger. Make sure BrowserTools extension is running in Chrome."
          [] OTHER -> "Unknown command"

(***************************************************************************)
(* The HTTP transport.  What the libraries and the agent answer is an      *)
(* input, `outcome`: [kind |-> "serialize_error" | "build_error" |         *)
(* "fetch_error" | "utf8_error" | "body", cause, body].                    *)
(***************************************************************************)
Outcome(kind, cause, body) == [kind |-> kind, cause |-> cause, body |-> body]

\* HttpRequest::builder().method(..).url(..).header(..)*.body(..)
HttpRequest(method, url, headers, body) ==
    [method |-> method, url |-> url, headers |-> headers, body |-> body]

\* call_browsertools_api returns `res` and has sent the requests `sent`.
Called(res, sent) == [res |-> res, sent |-> sent]

\* A variant of call_browsertools_api that sends the request once more
\* after the network failed.
call_browsertools_api_retry(url, method, params, outcome) ==
    LET request ==
            IF method = "POST"
            THEN HttpRequest("POST", url,
                             <<<<"Content-Type", "application/json">>,
                               <<"Accept", "application/json">>>>,
                             to_string(params))
            ELSE HttpRequest("GET", url,
                             <<<<"Accept", "application/json">>>>, <<>>)
    IN  IF method = "POST" /\ outcome.kind = "serialize_error"
        THEN Called(Err(<<T("JSON serialization error: "),
                          T(outcome.cause)>>), <<>>)
        ELSE IF outcome.kind = "build_error"
        THEN Called(Err(<<T("Failed to build request: "),
                          T(outcome.cause)>>), <<>>)
        ELSE IF outcome.kind = "fetch_error"
        THEN Called(Err(<<T("HTTP request failed: "), T(outcome.cause)>>),
                    <<request, request>>)
        ELSE IF outcome.kind = "utf8_error"
        THEN Called(Err(<<T("Failed to convert response body to UTF-8: "),
                          T(outcome.cause)>>), <<request>>)
        ELSE Called(Ok(outcome.body), <<request>>)

call_browsertools_api(url, method, params, outcome) ==
    LET request ==
            IF method = "POST"
            THEN HttpRequest("POST", url,
                             <<<<"Content-Type", "application/json">>,
                               <<"Accept", "application/json">>>>,
                             to_string(params))
            ELSE HttpRequest("GET", url,
                             <<<<"Accept", "application/json">>>>, <<>>)
    IN  IF method = "POST" /\ outcome.kind = "serialize_error"
        THEN Called(Err(<<T("JSON serialization error: "),
                          T(outcome.cause)>>), <<>>)
        ELSE IF outcome.kind = "build_error"
        THEN Called(Err(<<T("Failed to build request: "),
                          T(outcome.cause)>>), <<>>)
        ELSE IF outcome.kind = "fetch_error"
        THEN Called(Err(<<T("HTTP request failed: "), T(outcome.cause)>>),
                    <<request>>)
        ELSE IF outcome.kind = "utf8_error"
        THEN Called(Err(<<T("Failed to convert response body to UTF-8: "),
                          T(outcome.cause)>>), <<request>>)
        ELSE Called(Ok(outcome.body), <<request>>)

process_api_request(api_url, method, api_params, command_name, arg, outcome) ==
    LET called == call_browsertools_api(api_url, method, api_params, outcome)
    IN  IF called.res.ok
        THEN Called(process_api_response(called.res.v, api_url), called.sent)
        ELSE Called(Err(<<T(get_error_message(command_name, arg)), T(" Error: ")>>
                        \o called.res.v),
                    called.sent)

(***************************************************************************)
(* BrowserToolsSettings and its derived Deserialize                        *)
(***************************************************************************)
Settings(p, h, c) == [ok |-> TRUE, port |-> p, host |-> h, npx_command |-> c]

SettingsErr == [ok |-> FALSE, port |-> 0, host |-> "", npx_command |-> ""]

\* Whether a JSON value deserializes as u16.
IsU16(v) == v.t = "num" /\ v.d = 1 /\ v.n >= 0 /\ v.n <= U16_MAX

\* serde_json::from_value::<BrowserToolsSettings>: every field has a serde
\* default; a field of the wrong type fails the whole value.
BrowserToolsSettings(v) ==
    CASE v.t = "obj" ->
            IF \/ Has(v, "port") /\ ~IsU16(v.o["port"])
               \/ Has(v, "host") /\ ~HasStr(v, "host")
               \/ Has(v, "npx_command") /\ ~HasStr(v, "npx_command")
            THEN SettingsErr
            ELSE Settings(IF Has(v, "port") THEN v.o["port"].n
                          ELSE default_port,
                          GetStrOr(v, "host", default_host),
                          GetStrOr(v, "npx_command", default_npx_command))
      [] v.t = "arr" ->
            IF \/ Len(v.a) >= 1 /\ ~IsU16(v.a[1])
               \/ Len(v.a) >= 2 /\ v.a[2].t # "str"
               \/ Len(v.a) >= 3 /\ v.a[3].t # "str"
               \/ Len(v.a) > 3
            THEN SettingsErr
            ELSE Settings(IF Len(v.a) >= 1 THEN v.a[1].n ELSE default_port,
                          IF Len(v.a) >= 2 THEN v.a[2].s ELSE default_host,
                          IF Len(v.a) >= 3 THEN v.a[3].s
                          ELSE default_npx_command)
      [] OTHER -> SettingsErr

(***************************************************************************)
(* The callbacks of zed::Extension.  Each returns what it changes and what *)
(* it answers.                                                             *)
(***************************************************************************)
\* BrowserToolsExtension::new()
new == [port |-> DEFAULT_PORT, host |-> DEFAULT_HOST,
        npx_command |-> DEFAULT_BROWSERTOOLS_NPX_COMMAND]

\* A variant of context_server_command that keeps the held value of a
\* setting the new settings leave out.
context_server_command_merge(self, found) ==
    IF found.kind = "error"
    THEN [self |-> self, res |-> Err(<<T("settings error")>>)]
    ELSE LET json == IF found.kind = "none" THEN JObj(EmptyMap) ELSE found.v
             parsed == BrowserToolsSettings(json)
             settings == IF parsed.ok
                         THEN Settings(IF Has(json, "port") THEN parsed.port
                                       ELSE self.port,
                                       IF Has(json, "host") THEN parsed.host
                                       ELSE self.host,
                                       IF Has(json, "npx_command")
                                       THEN parsed.npx_command
                                       ELSE self.npx_command)
                         ELSE Settings(default_port, default_host,
                                       default_npx_command)
         IN  [self |-> [port |-> settings.port, host |-> settings.host,
                        npx_command |-> settings.npx_command],
              res |-> Ok([command |-> "npx",
                          args |-> <<settings.npx_command>>,
                          env |-> <<<<"PORT", <<I(settings.port)>>>>,
                                    <<"HOST", <<T(settings.host)>>>>>>])]

\* `found` is what ContextServerSettings::for_project answers:
\* [kind |-> "error" | "none" | "some", v |-> the settings value].
context_server_command(self, found) ==
    IF found.kind = "error"
    THEN [self |-> self, res |-> Err(<<T("settings error")>>)]
    ELSE LET json == IF found.kind = "none" THEN JObj(EmptyMap) ELSE found.v
             parsed == BrowserToolsSettings(json)
             settings == IF parsed.ok THEN parsed
                         ELSE Settings(default_port, default_host,
                                       default_npx_command)
         IN  [self |-> [port |-> settings.port, host |-> settings.host,
                        npx_command |-> settings.npx_command],
              res |-> Ok([command |-> "npx",
                          args |-> <<settings.npx_command>>,
                          env |-> <<<<"PORT", <<I(settings.port)>>>>,
                                    <<"HOST", <<T(settings.host)>>>>>>])]

complete_slash_command_argument(command) ==
    CASE command = "browser-capture" ->
            Ok(<<create_completion("Screenshot", "screenshot"),
                 create_completion("Console Logs", "logs"),
                 create_completion("Console Errors", "errors"),
                 create_completion("Network Logs", "network"),
                 create_completion("Network Errors", "network-errors"),
                 create_completion("Clear Logs", "clear"),
                 create_completion("DOM Element", "element")>>)
      [] command = "browser-audit" ->
            Ok(<<create_completion("Accessibility", "accessibility"),
                 create_completion("Performance", "performance"),
                 create_completion("SEO", "seo"),
                 create_completion("Best Practices", "best-practices"),
                 create_completion("NextJS", "nextjs"),
                 create_completion("Run All Audits", "all")>>)
      [] command = "browser-debug" ->
            Ok(<<create_completion("Start Debugger Mode", "start")>>)
      [] OTHER ->
            Err(<<T("unknown slash command: \""), T(command), T("\"")>>)

\* What one run_slash_command did: its answer, the HTTP requests it sent,
\* the calls it made to the transport and the number of command-table
\* lookups it made.
Ran(res, sent, calls, lookups) ==
    [res |-> res, sent |-> sent, calls |-> calls, lookups |-> lookups]

\* A variant of run_slash_command that looks the pair up before it checks
\* the argument.
run_slash_command_lookup_first(self, command_name, args, outcome) ==
    LET arg == IF Len(args) > 0 THEN args[1] ELSE ""
        looked == get_api_params(command_name, arg)
        api_url == format_api_url(self.host, self.port, looked.v.endpoint)
        done == process_api_request(api_url, looked.v.method,
                                    looked.v.params, command_name, arg,
                                    outcome)
        calls == <<[url |-> api_url, method |-> looked.v.method,
                    params |-> looked.v.params]>>
        section_label == get_section_label(command_name, arg)
    IN  IF ~looked.ok THEN Ran(Err(looked.v), <<>>, <<>>, 1)
        ELSE IF arg = ""
        THEN Ran(Err(<<T("No argument provided. Please select an option.")>>),
                 <<>>, <<>>, 1)
        ELSE IF ~done.res.ok THEN Ran(Err(done.res.v), done.sent, calls, 1)
        ELSE Ran(Ok([sections |-> <<[range |-> <<0, Len(done.res.v)>>,
                                     label |-> section_label]>>,
                     text |-> done.res.v]),
                 done.sent, calls, 1)

run_slash_command(self, command_name, args, outcome) ==
    LET arg == IF Len(args) > 0 THEN args[1] ELSE ""
        looked == get_api_params(command_name, arg)
        api_url == format_api_url(self.host, self.port, looked.v.endpoint)
        done == process_api_request(api_url, looked.v.method,
                                    looked.v.params, command_name, arg,
                                    outcome)
        calls == <<[url |-> api_url, method |-> looked.v.method,
                    params |-> looked.v.params]>>
        section_label == get_section_label(command_name, arg)
    IN  IF arg = ""
        THEN Ran(Err(<<T("No argument provided. Please select an option.")>>),
                 <<>>, <<>>, 0)
        ELSE IF ~looked.ok THEN Ran(Err(looked.v), <<>>, <<>>, 1)
        ELSE IF ~done.res.ok THEN Ran(Err(done.res.v), done.sent, calls, 1)
        ELSE Ran(Ok([sections |-> <<[range |-> <<0, Len(done.res.v)>>,
                                     label |-> section_label]>>,
                     text |-> done.res.v]),
                 done.sent, calls, 1)

(***************************************************************************)
(* The inputs of the model                                                 *)
(***************************************************************************)
Commands == {"browser-capture", "browser-audit", "browser-debug", "browser-tools"}

CaptureArgs ==
    {"screenshot", "logs", "errors", "network", "network-errors", "clear",
     "element"}

AuditArgs ==
    {"accessibility", "performance", "seo", "best-practices", "nextjs", "all"}

DebugArgs == {"start"}

ArgVectors ==
    {<<>>, <<"">>, <<"bogus">>, <<"", "logs">>, <<"logs", "">>}
    \cup {<<a>> : a \in CaptureArgs \cup AuditArgs \cup DebugArgs}

\* The payloads an agent may put in `data`, or send bare.
DataValues ==
    { JNull,
      JStr("ok"),
      JObj(EmptyMap),
      JArr(<<>>),
      JArr(<<JObj([level |-> JStr("error"), message |-> JStr("boom")]),
             JObj(EmptyMap)>>),
      JObj([score |-> JNum(87, 100), issues |-> JArr(<<>>)]),
      JObj([score |-> JNum(876, 1000), issues |-> JArr(<<>>)]),
      JObj([score |-> JNum(875, 1000),
            issues |-> JArr(<<JObj([title |-> JStr("Low contrast"),
                                    description |-> JStr("Fix colors")]),
                              JObj(EmptyMap)>>)]),
      JObj([issues |-> JArr(<<>>)]),
      JObj([score |-> JNum(1, 2)]),
      JObj([score |-> JStr("high"), issues |-> JStr("none")]),
      JObj([element |-> JObj([tagName |-> JStr("div"), id |-> JStr("main"),
                              outerHTML |-> JStr("<div>")])]),
      JObj([message |-> JStr("Saved")]) }

\* Envelopes and near-envelopes.
EnvelopeValues ==
    {JObj([status |-> JStr("success"), data |-> d]) : d \in DataValues}
    \cup { JObj([status |-> JStr("success")]),
           JObj([status |-> JStr("error"), message |-> JStr("boom")]),
           JObj([status |-> JStr("error")]),
           JObj([status |-> JStr("error"), message |-> JStr("boom"),
                 data |-> JArr(<<>>)]),
           JObj([status |-> JStr("error"), message |-> JNull]),
           JObj([status |-> JNum(5, 1)]),
           JArr(<<JStr("error"), JNull, JStr("boom")>>),
           JArr(<<JStr("success"), JArr(<<>>)>>) }

\* A whole envelope, as the agent would send it.
SampleBody ==
    to_string(JObj([status |-> JStr("success"),
                    data |-> JObj([score |-> JNum(87, 100),
                                   issues |-> JArr(<<>>)])]))

\* The payloads an agent may send bare, with no envelope around them.
BareValues ==
    { JNull,
      JArr(<<>>),
      JArr(<<JObj([level |-> JStr("error"), message |-> JStr("boom")]),
             JObj(EmptyMap)>>),
      JObj([score |-> JNum(87, 100), issues |-> JArr(<<>>)]),
      JObj([element |-> JObj([tagName |-> JStr("div"), id |-> JStr("main"),
                              outerHTML |-> JStr("<div>")])]),
      JObj([message |-> JStr("Saved")]) }

\* The response bodies: JSON texts, compact or pretty, text that is no
\* JSON, JSON followed by more text, and JSON cut short.
Bodies ==
    {to_string(v) : v \in BareValues \cup EnvelopeValues}
    \cup {to_string_pretty(JObj([status |-> JStr("success"),
                                 data |-> JArr(<<>>)]))}
    \cup {<<>>, <<X("<html>")>>, SampleBody \o <<X("<html>")>>}
    \cup {SubSeq(SampleBody, 1, k) : k \in 1..MaxCut}

Outcomes ==
    { Outcome("serialize_error", "key must be a string", <<>>),
      Outcome("build_error", "URL not provided", <<>>),
      Outcome("fetch_error", "connection refused", <<>>),
      Outcome("utf8_error", "invalid utf-8 sequence", <<>>) }
    \cup {Outcome("body", "", b) : b \in Bodies}

\* No transport outcome: the call never reached the transport.
NoOutcome == Outcome("none", "", <<>>)

\* The settings the host may hold for this context server.
SettingsValues ==
    { JNull,
      JObj([port |-> JNum(8080, 1)]),
      JObj([host |-> JStr("localhost")]),
      JObj([port |-> JNum(8080, 1), host |-> JStr("localhost"),
            npx_command |-> JStr("browser-tools-server")]),
      JObj([port |-> JNum(U16_MAX + 1, 1), host |-> JStr("localhost")]) }

Found(kind, v) == [kind |-> kind, v |-> v]

ForProject ==
    {Found("error", JNull), Found("none", JNull)}
    \cup {Found("some", v) : v \in SettingsValues}

(***************************************************************************)
(* The state machine: the host calls one callback at a time and takes its  *)
(* answer before the next call.                                            *)
(***************************************************************************)
self == [port |-> port, host |-> host, npx_command |-> npx_command]

NoCall ==
    [op |-> "none", command |-> "", args |-> <<>>, outcome |-> NoOutcome,
     found |-> Found("none", JNull), sent |-> <<>>, calls |-> <<>>,
     lookups |-> 0]

NoResult == [ok |-> TRUE, v |-> <<>>]

NeverResolved == [seen |-> FALSE, found |-> Found("none", JNull)]

Init ==
    /\ port = new.port
    /\ host = new.host
    /\ npx_command = new.npx_command
    /\ now = 0
    /\ pc = "idle"
    /\ call = NoCall
    /\ result = NoResult
    /\ resolved = NeverResolved

\* The wall clock advances between calls.
Tick ==
    /\ pc = "idle"
    /\ now < MaxClock
    /\ now' = now + 1
    /\ UNCHANGED <<host, port, npx_command, pc, call, result, resolved>>

ContextServerCommand(found) ==
    /\ pc = "idle"
    /\ LET r == context_server_command(self, found)
       IN  /\ port' = r.self.port
           /\ host' = r.self.host
           /\ npx_command' = r.self.npx_command
           /\ result' = r.res
           /\ resolved' = IF r.res.ok
                          THEN [seen |-> TRUE, found |-> found]
                          ELSE resolved
    /\ call' = [NoCall EXCEPT !.op = "context_server_command",
                              !.found = found]
    /\ pc' = "done"
    /\ UNCHANGED now

CompleteSlashCommandArgument(command, args) ==
    /\ pc = "idle"
    /\ result' = complete_slash_command_argument(command)
    /\ call' = [NoCall EXCEPT !.op = "complete_slash_command_argument",
                              !.command = command, !.args = args]
    /\ pc' = "done"
    /\ UNCHANGED <<host, port, npx_command, now, resolved>>

\* Whether the call reaches the transport, and the outcomes it may meet
\* there: only a POST serializes its payload.
Reaches(command, args) ==
    /\ Len(args) > 0
    /\ args[1] # ""
    /\ get_api_params(command, args[1]).ok

\* The transport outcomes a call may meet.
OutcomesFor(command, args) ==
    IF Reaches(command, args)
    THEN IF get_api_params(command, args[1]).v.method = "POST"
         THEN Outcomes
         ELSE {o \in Outcomes : o.kind # "serialize_error"}
    ELSE {NoOutcome}

RunSlashCommand(command, args, outcome) ==
    /\ pc = "idle"
    /\ outcome \in OutcomesFor(command, args)
    /\ LET r == run_slash_command(self, command, args, outcome)
       IN  /\ result' = r.res
           /\ call' = [NoCall EXCEPT !.op = "run_slash_command",
                                     !.command = command, !.args = args,
                                     !.outcome = outcome, !.sent = r.sent,
                                     !.calls = r.calls,
                                     !.lookups = r.lookups]
    /\ pc' = "done"
    /\ UNCHANGED <<host, port, npx_command, now, resolved>>

\* The host takes the answer.
Return ==
    /\ pc = "done"
    /\ pc' = "idle"
    /\ call' = NoCall
    /\ result' = NoResult
    /\ UNCHANGED <<host, port, npx_command, now, resolved>>

Next ==
    \/ Tick
    \/ \E found \in ForProject : ContextServerCommand(found)
    \/ \E command \in Commands, args \in {<<>>, <<"lo">>} :
           CompleteSlashCommandArgument(command, args)
    \/ \E command \in Commands, args \in ArgVectors,
          outcome \in Outcomes \cup {NoOutcome} :
           RunSlashCommand(command, args, outcome)
    \/ Return

Spec == Init /\ [][Next]_vars

(***************************************************************************)
(* Vocabulary of the properties                                            *)
(***************************************************************************)
\* A run_slash_command call has just answered.
RunDone == pc = "done" /\ call.op = "run_slash_command"

\* The argument the call was given: its first, or "" when it has none.
FirstArg == IF Len(call.args) > 0 THEN call.args[1] ELSE ""

ThePair == <<call.command, FirstArg>>

CapturePairs == {<<"browser-capture", a>> : a \in CaptureArgs}

AuditPairs == {<<"browser-audit", a>> : a \in AuditArgs}

DebugPairs == {<<"browser-debug", a>> : a \in DebugArgs}

\* The 14 pairs the completions list: 7 capture, 6 audit, 1 debug.
DefinedPairs == CapturePairs \cup AuditPairs \cup DebugPairs

EndpointPaths ==
    {"capture-screenshot", "console-logs", "console-errors",
     "network-success", "network-errors", "wipelogs", "selected-element",
     "accessibility-audit", "performance-audit", "seo-audit",
     "best-practices-audit", "nextjs-audit", "audit-all", "debug-mode"}

AuditEndpoints ==
    {"accessibility-audit", "performance-audit", "seo-audit",
     "best-practices-audit", "nextjs-audit"}

\* The call answered the error whose text is e.
Failed(e) == ~result.ok /\ result.v = e

UnknownError ==
    Failed(Txt(<<T("Unknown command or argument: "), T(call.command), T(" "),
                 T(FirstArg)>>))

NoArgumentError ==
    Failed(<<T("No argument provided. Please select an option.")>>)

\* The call answered a labeled output: one section, over the whole text.
LabeledOutput ==
    /\ result.ok
    /\ Len(result.v.sections) = 1
    /\ result.v.sections[1].range = <<0, Len(result.v.text)>>

\* The endpoint the call asked the transport for.
AskedEndpoint == split_last(call.calls[1].url)

\* The transport gave back a body, and how it parses.
GotBody == RunDone /\ call.outcome.kind = "body"

Envelope == from_str_ApiResponse(call.outcome.body)

BareJson == from_str_value(call.outcome.body)

TransportFailed ==
    /\ RunDone
    /\ call.outcome.kind \in
           {"serialize_error", "build_error", "fetch_error", "utf8_error"}

C1_WitnessReject ==
    /\ RunDone
    /\ ThePair = <<"browser-debug", "logs">>
    /\ UnknownError

(***************************************************************************)
(* C2: with no argument, or an empty first argument, any command answers   *)
(* the 'No argument provided' error, before any command-table lookup and   *)
(* with no HTTP request.                                                   *)
(***************************************************************************)
C2_NoArgument ==
    (RunDone /\ FirstArg = "") =>
        /\ NoArgumentError
        /\ call.lookups = 0
        /\ call.calls = <<>>
        /\ call.sent = <<>>

C2_Witness ==
    /\ RunDone
    /\ call.command = "browser-tools"
    /\ call.args = <<"", "logs">>
    /\ NoArgumentError

(***************************************************************************)
(* C3: once the transport has returned a body, the call ends with a        *)
(* labeled output and never an error, whatever the body: the envelope      *)
(* tier, else the arbitrary-JSON tier, else the raw text after the parse   *)
(* error.                                                                  *)
(***************************************************************************)
C3_NormalizeNeverFails ==
    GotBody =>
        /\ LabeledOutput
        /\ process_api_response(call.outcome.body, call.calls[1].url).ok
        /\ (~Envelope.ok /\ BareJson.ok) =>
               result.v.text =
                   format_browser_tools_response(AskedEndpoint, BareJson.v)
        /\ (~Envelope.ok /\ ~BareJson.ok) =>
               /\ StartsWith(result.v.text,
                             <<T("Raw response from BrowserTools (parse error: ")>>)
               /\ SubSeq(result.v.text, 4, Len(result.v.text)) =
                      call.outcome.body

\* A body cut short after its first tokens still gives a labeled output.
C3_Witness ==
    /\ GotBody
    /\ call.outcome.body = SubSeq(SampleBody, 1, 2)
    /\ ~BareJson.ok
    /\ LabeledOutput

(***************************************************************************)
(* C4: a call sends at most one HTTP request, never a second one after a   *)
(* transport failure, and a transport failure ends the call with an error. *)
(***************************************************************************)
AtMostOnceThenError ==
    /\ Len(call.sent) <= 1
    /\ TransportFailed => ~result.ok

\* C4: as claimed, every call with a non-empty argument and a listed pair
\* sends exactly one request.
C4_ExactlyOneRequest ==
    RunDone =>
        /\ AtMostOnceThenError
        /\ (FirstArg # "" /\ ThePair \in DefinedPairs) => Len(call.sent) = 1

\* C4: as amended, such a call sends exactly one request unless serializing
\* the payload or building the request failed, and then it sends none.
C4_OneRequestOnceBuilt ==
    RunDone =>
        /\ AtMostOnceThenError
        /\ (FirstArg # "" /\ ThePair \in DefinedPairs) =>
               Len(call.sent) =
                   IF call.outcome.kind \in {"serialize_error", "build_error"}
                   THEN 0 ELSE 1
        /\ (FirstArg = "" \/ ThePair \notin DefinedPairs) => call.sent = <<>>

\* The agent is unreachable: one request, not repeated, and an error.
C4_Witness ==
    /\ RunDone
    /\ call.outcome.kind = "fetch_error"
    /\ Len(call.sent) = 1
    /\ ~result.ok

(***************************************************************************)
(* C5: a reply that parses as an envelope whose status is not 'success'    *)
(* gives a labeled output, not an error: 'Error from BrowserTools: ' and   *)
(* the envelope's message (nothing when it has none), whatever the         *)
(* endpoint and the data.                                                  *)
(***************************************************************************)
C5_RemoteFailureIsText ==
    (GotBody /\ Envelope.ok /\ Envelope.status # "success") =>
        /\ LabeledOutput
        /\ result.v.sections[1].label \notin {"", "Browser Tools"}
        /\ result.v.text =
               IF Envelope.message = ""
               THEN <<T("Error from BrowserTools: ")>>
               ELSE <<T("Error from BrowserTools: "), T(Envelope.message)>>

\* A failure envelope that carries data a console formatter would render.
C5_Witness ==
    /\ GotBody
    /\ ThePair = <<"browser-capture", "logs">>
    /\ call.outcome.body =
           to_string(JObj([status |-> JStr("error"),
                           message |-> JStr("boom"), data |-> JArr(<<>>)]))
    /\ result.ok
    /\ result.v.text = <<T("Error from BrowserTools: "), T("boom")>>

(***************************************************************************)
(* C6: a transport failure on a listed pair answers an error made of the   *)
(* hint of the pair's group, then the transport's cause; never the         *)
(* 'Unknown command' hint.                                                 *)
(***************************************************************************)
\* What the transport says of each failure, before the library's own words.
CausePrefix ==
    [serialize_error |-> "JSON serialization error: ",
     build_error |-> "Failed to build request: ",
     fetch_error |-> "HTTP request failed: ",
     utf8_error |-> "Failed to convert response body to UTF-8: "]

Running == " Make sure BrowserTools extension is running in Chrome."

C6_TransportErrorHint ==
    TransportFailed =>
        /\ ThePair \in DefinedPairs
        /\ ~result.ok
        /\ Len(result.v) = 4
        /\ result.v[1] = T(get_error_message(call.command, FirstArg))
        /\ result.v[1] # T("Unknown command")
        /\ call.command = "browser-audit" =>
               result.v[1] = T("Failed to run audit. Make sure BrowserTools extension is running in Chrome.")
        /\ call.command = "browser-debug" =>
               result.v[1] = T("Failed to start debugger. Make sure BrowserTools extension is running in Chrome.")
        /\ ThePair = <<"browser-capture", "network-errors">> =>
               result.v[1] = T("Failed to retrieve network errors. Make sure BrowserTools extension is running in Chrome.")
        /\ result.v[2] = T(" Error: ")
        /\ result.v[3] = T(CausePrefix[call.outcome.kind])
        /\ result.v[4] = T(call.outcome.cause)

\* The payload of an audit fails to serialize.
C6_Witness ==
    /\ TransportFailed
    /\ ThePair = <<"browser-audit", "nextjs">>
    /\ call.outcome.kind = "serialize_error"
    /\ ~result.ok
    /\ result.v[1] = T("Failed to run audit. Make sure BrowserTools extension is running in Chrome.")

(***************************************************************************)
(* C7: the payloads of the command table.                                  *)
(***************************************************************************)
ThePayload == call.calls[1].params

Resolved == RunDone /\ Len(call.calls) = 1

\* The payload carries the fixed source and the time of the call.
SourceAndTime ==
    /\ HasStr(ThePayload, "source")
    /\ ThePayload.o["source"] = JStr("zed_extension")
    /\ Has(ThePayload, "timestamp")
    /\ ThePayload.o["timestamp"] = JNum(now, 1)

\* The request that went out carries the payload, a GET carries none.
SentAsResolved ==
    \A i \in 1..Len(call.sent) :
        call.sent[i].body =
            IF call.sent[i].method = "POST" THEN to_string(ThePayload)
            ELSE <<>>

\* C7: as claimed, every audit and debug payload embeds a category tag,
\* the source and the time of the call, and every capture payload is empty.
C7_PayloadsTagged ==
    Resolved =>
        /\ ThePair \in AuditPairs \cup DebugPairs =>
               HasStr(ThePayload, "category") /\ SourceAndTime
        /\ ThePair \in CapturePairs => ThePayload = JObj(EmptyMap)

CategoryPairs ==
    {<<"browser-audit", a>> :
        a \in {"accessibility", "performance", "seo", "best-practices"}}

\* C7: as amended, every audit and debug payload embeds the source and the
\* time of the call; the category tag, which is the argument, is embedded
\* for accessibility, performance, seo and best-practices only; every
\* capture payload is empty.
C7_PayloadsSourceAndTime ==
    Resolved =>
        /\ ThePair \in AuditPairs \cup DebugPairs => SourceAndTime
        /\ ThePair \in CategoryPairs =>
               /\ Has(ThePayload, "category")
               /\ ThePayload.o["category"] = JStr(FirstArg)
        /\ ThePair \in (AuditPairs \cup DebugPairs) \ CategoryPairs =>
               ~Has(ThePayload, "category")
        /\ ThePair \in CapturePairs => ThePayload = JObj(EmptyMap)
        /\ SentAsResolved

\* A categorised audit asked after the clock has advanced.
C7_Witness ==
    /\ Resolved
    /\ ThePair = <<"browser-audit", "seo">>
    /\ now > 0
    /\ Len(call.sent) = 1
    /\ ThePayload.o["timestamp"] = JNum(now, 1)
    /\ ThePayload.o["category"] = JStr("seo")

(***************************************************************************)
(* C8: the audit endpoints.                                                *)
(***************************************************************************)
\* The reply is a success envelope; its data goes to the formatter.
SuccessData == GotBody /\ Envelope.ok /\ Envelope.status = "success"

TheData == Envelope.data

TheText == result.v.text

ScoreAndNoIssues ==
    /\ HasNum(TheData, "score")
    /\ HasArr(TheData, "issues")
    /\ Len(TheData.o["issues"].a) = 0

NeitherScoreNorIssues == ~HasNum(TheData, "score") /\ ~HasArr(TheData, "issues")

\* n is the whole percentage nearest to the score num/den.
Nearest(n, num, den) ==
    LET diff == 100 * num - n * den
    IN  2 * (IF diff < 0 THEN 0 - diff ELSE diff) <= den

\* The text holds the line 'Overall Score: N%' and, after it, 'No issues
\* found!'.
ScoreThenNoIssues ==
    \E n \in 0..100 :
        /\ Nearest(n, TheData.o["score"].n, TheData.o["score"].d)
        /\ ContainsAfter(TheText,
                         <<T("Overall Score: "), I(n), T("%"), T("\n")>>,
                         <<T("No issues found!")>>)

\* The text is a label and then the pretty-printed payload, whole.
LabeledPretty ==
    \E k \in 1..2 :
        /\ k < Len(TheText)
        /\ \A i \in 1..k : TheText[i].k = "t"
        /\ SubSeq(TheText, k + 1, Len(TheText)) = to_string_pretty(TheData)

\* C8: as claimed, for the five audit endpoints and run-all alike, a score
\* with an empty issues sequence renders the score line and then 'No issues
\* found!', and data with neither renders a labeled pretty-print.
C8_AuditRendering ==
    (SuccessData /\ AskedEndpoint \in AuditEndpoints \cup {"audit-all"}) =>
        /\ ScoreAndNoIssues => ScoreThenNoIssues
        /\ NeitherScoreNorIssues => LabeledPretty

\* C8: as amended, that holds for accessibility, performance, SEO,
\* best-practices and nextjs; run-all renders a labeled pretty-print of the
\* whole payload whatever the data carries.
C8_AuditRenderingButRunAll ==
    /\ (SuccessData /\ AskedEndpoint \in AuditEndpoints) =>
           /\ ScoreAndNoIssues => ScoreThenNoIssues
           /\ NeitherScoreNorIssues => LabeledPretty
    /\ (SuccessData /\ AskedEndpoint = "audit-all") =>
           /\ LabeledPretty
           /\ TheText[1] = T("Audit Mode Results:\n\n")

\* A score of 0.876 renders as 88% before 'No issues found!'.
C8_Witness ==
    /\ SuccessData
    /\ AskedEndpoint = "accessibility-audit"
    /\ TheData = JObj([score |-> JNum(876, 1000), issues |-> JArr(<<>>)])
    /\ ContainsAfter(TheText,
                     <<T("Overall Score: "), I(88), T("%"), T("\n")>>,
                     <<T("No issues found!")>>)

(***************************************************************************)
(* C9: the console-logs and console-errors endpoints.                      *)
(***************************************************************************)
ConsoleData == SuccessData /\ AskedEndpoint \in {"console-logs", "console-errors"}

ConsoleHeader == <<T("Console Logs:"), T("\n\n")>>

\* The line of one log entry: '[LEVEL] message'.
LogLine(log) ==
    Txt(<<T("["), T(to_uppercase(GetStrOr(log, "level", "info"))), T("] "),
          T(GetStrOr(log, "message", ""))>>)

\* A non-empty sequence renders one line per entry under the header, and
\* a payload that is no sequence renders a labeled pretty-print.
ConsoleOtherwise ==
    /\ (TheData.t = "arr" /\ Len(TheData.a) > 0) =>
           TheText =
               ConsoleHeader
               \o Join([i \in 1..Len(TheData.a) |-> LogLine(TheData.a[i])],
                       <<T("\n")>>)
    /\ TheData.t # "arr" =>
           TheText = <<T("Console logs: ")>> \o to_string_pretty(TheData)

\* C9: as claimed, an empty sequence renders 'No console logs found.'
\* within the Console Logs header wrapper.
C9_EmptyLogsUnderHeader ==
    ConsoleData =>
        /\ (TheData.t = "arr" /\ Len(TheData.a) = 0) =>
               /\ StartsWith(TheText, ConsoleHeader)
               /\ Contains(TheText, <<T("No console logs found.")>>)
        /\ ConsoleOtherwise

\* C9: as amended, an empty sequence renders exactly 'No console logs
\* found.', without the header.
C9_EmptyLogsExact ==
    ConsoleData =>
        /\ (TheData.t = "arr" /\ Len(TheData.a) = 0) =>
               TheText = <<T("No console logs found.")>>
        /\ ConsoleOtherwise

C9_Witness ==
    /\ ConsoleData
    /\ AskedEndpoint = "console-errors"
    /\ TheData = JArr(<<>>)
    /\ TheText = <<T("No console logs found.")>>

\* Entries with and without level and message, under the header.
C9_WitnessLines ==
    /\ ConsoleData
    /\ TheData.t = "arr"
    /\ Len(TheData.a) = 2
    /\ TheText = ConsoleHeader
                 \o <<T("["), T("ERROR"), T("] "), T("boom"), T("\n"),
                      T("["), T("INFO"), T("] ")>>

(***************************************************************************)
(* C10: the configuration is that of the most recent session resolution    *)
(* (the defaults before any): every request goes to its host and port,     *)
(* each absent setting is its default whatever came before, and only a     *)
(* resolution changes it.                                                  *)
(***************************************************************************)
\* The settings of the most recent resolution.
LastSettings ==
    IF resolved.found.kind = "some" THEN resolved.found.v ELSE JObj(EmptyMap)

WellTyped(v) ==
    /\ Has(v, "port") => IsU16(v.o["port"])
    /\ Has(v, "host") => HasStr(v, "host")
    /\ Has(v, "npx_command") => HasStr(v, "npx_command")

ConfigOfLastResolution ==
    /\ ~resolved.seen =>
           /\ host = "127.0.0.1"
           /\ port = 3025
           /\ npx_command = DEFAULT_BROWSERTOOLS_NPX_COMMAND
    /\ (resolved.seen /\ LastSettings.t = "obj") =>
           /\ ~Has(LastSettings, "host") => host = "127.0.0.1"
           /\ ~Has(LastSettings, "port") => port = 3025
           /\ ~Has(LastSettings, "npx_command") =>
                  npx_command = DEFAULT_BROWSERTOOLS_NPX_COMMAND
           /\ WellTyped(LastSettings) =>
                  /\ Has(LastSettings, "host") =>
                         host = LastSettings.o["host"].s
                  /\ Has(LastSettings, "port") =>
                         port = LastSettings.o["port"].n
                  /\ Has(LastSettings, "npx_command") =>
                         npx_command = LastSettings.o["npx_command"].s

RequestsGoToConfig ==
    RunDone =>
        \A i \in 1..Len(call.sent) :
            /\ SubSeq(call.sent[i].url, 1, 7) =
                   <<T("http:"), T("/"), T("/"), T(host), T(":"), I(port),
                     T("/")>>
            /\ Len(call.sent[i].url) = 8
            /\ call.sent[i].url[8].s \in EndpointPaths

OnlyResolutionChangesConfig ==
    (call'.op \in {"run_slash_command", "complete_slash_command_argument"})
        => UNCHANGED <<host, port, npx_command>>

C10_ConfigOfLastResolution ==
    /\ [](ConfigOfLastResolution /\ RequestsGoToConfig)
    /\ [][OnlyResolutionChangesConfig]_vars

\* A request after a resolution that set the port alone.
C10_Witness ==
    /\ RunDone
    /\ resolved.seen
    /\ LastSettings = JObj([port |-> JNum(8080, 1)])
    /\ Len(call.sent) = 1
    /\ call.sent[1].url =
           <<T("http:"), T("/"), T("/"), T("127.0.0.1"), T(":"), I(8080),
             T("/"), T("console-logs")>>

====
